---- MODULE Spec2Model ----
(***************************************************************************)
(* A model of psychopy_ext.exp.Experiment: run() = setup, instructions,    *)
(* trial loop; the key-event buffer polled by last_keypress; the csv data  *)
(* file appended to by loop_trials and _write_header.                      *)
(*                                                                         *)
(* Time is counted in ticks; one iteration of a wait loop takes one tick.  *)
(* The data file is a sequence of lines on disk (store) plus the lines the *)
(* open file object still buffers (dbuf).                                  *)
(***************************************************************************)
EXTENDS Integers, Sequences, FiniteSets, TLC

VARIABLES
    pc,            \* position of the process inside run()
    runNo,         \* number of runs started so far on the same data file
    store,         \* lines of the data file on disk
    fileExists,    \* the data file exists on disk
    dfile,         \* "none" | "open" | "closed": the file object of loop_trials
    dbuf,          \* lines written through datawriter, not yet on disk
    write_head,    \* local of loop_trials: "unbound" | "true" | "false"
    win,           \* "none" | "open" | "closed": self.win
    winCloses,     \* number of win.close() calls in this run
    keyBuffer,     \* psychopy.event key buffer, in arrival order
    runParams,     \* [noOutput, autorun]
    trial,         \* self.trial: the event list, sequence of [dur, func]
    trialDur,      \* self.trialDur
    trialList,     \* self.trialList: sequence of trial records
    fields,        \* ordered keys of a trial record of this run
    sequence,      \* order in which the TrialHandler yields trialList indices
    trialNo,       \* local of loop_trials
    j,             \* index of the current event (1-based)
    thisTrial,     \* the trial record being run
    allKeys,       \* keys collected in the current trial
    globClock,     \* ticks since loop_trials set up the clocks
    trialClock,    \* ticks since the trial started
    eventClock,    \* ticks since the event started
    nReps,         \* self.nReps
    log,           \* history of this run: phases, polls, handler calls, rows
    storeAtStart,  \* history: the content of the data file when the run began
    call,          \* a call of a design function: its arguments and result
    od             \* an OrderedDict object: its items and its linked list of keys

vars == <<pc, runNo, store, fileExists, dfile, dbuf, write_head, win, winCloses,
          keyBuffer, runParams, trial, trialDur, trialList, fields, sequence,
          trialNo, j, thisTrial, allKeys, globClock, trialClock, eventClock,
          nReps, log, storeAtStart, call, od>>

----------------------------------------------------------------------------
(* Bounds of the model *)

MaxRuns == 2          \* runs of the program on the same data file
MaxKeys == 2          \* key presses waiting in the event buffer
MaxReps == 2          \* nReps of the TrialHandler

----------------------------------------------------------------------------
(* default_computer *)

trigger == "space"
defaultKeys == <<"escape", trigger>>
validKeys == {"0", "1"}
validResponses == [k \in validKeys |-> IF k = "0" THEN 0 ELSE 1]
signalDet == [b \in BOOLEAN |-> IF b THEN "Correct" ELSE "Incorrect"]

\* the keys pressed during these runs: the special keys
Keyboard == {"escape", "space"}

\* values of a trial record are strings or numbers
Str(s) == <<"str", s>>
Num(n) == <<"num", n>>
IsNum(v) == v[1] = "num"

SeqToSet(s) == {s[i] : i \in 1..Len(s)}

IsPrefix(s, t) == Len(s) <= Len(t) /\ SubSeq(t, 1, Len(s)) = s

----------------------------------------------------------------------------
(* psychopy.event.getKeys(keyList): the buffered keys that are in keyList,  *)
(* in arrival order; they leave the buffer, the other keys stay.           *)

getKeys(buffer, keyList) == SelectSeq(buffer, LAMBDA k : k \in keyList)

afterGetKeys(buffer, keyList) == SelectSeq(buffer, LAMBDA k : k \notin keyList)

(* Experiment.last_keypress: the last of the default keys pressed since the *)
(* previous poll; quits if that key is escape.                              *)
last_keypress(buffer) ==
    LET thisKeyList == getKeys(buffer, SeqToSet(defaultKeys))
    IN  IF Len(thisKeyList) > 0
        THEN LET thisKey == thisKeyList[Len(thisKeyList)]
             IN  IF thisKey = "escape"
                 THEN [quit |-> TRUE, key |-> "None"]
                 ELSE [quit |-> FALSE, key |-> thisKey]
        ELSE [quit |-> FALSE, key |-> "None"]

----------------------------------------------------------------------------
(* The csv data file *)

extraInfo_keys == <<"subjID">>
extraInfo_values == <<Str("subj")>>

\* csv.writer renders a cell: numbers by their decimal text, strings as is
csv_cell(v) == IF IsNum(v) THEN ToString(v[2]) ELSE v[2]

\* a line of the file; run, flds and no are history, only cells is on disk
header_line(header, run) ==
    [kind |-> "header", cells |-> header, flds |-> header, run |-> run, no |-> 0]

row_line(header, out, run, no) ==
    [kind |-> "row", cells |-> [i \in 1..Len(out) |-> csv_cell(out[i])],
     flds |-> header, run |-> run, no |-> no]

\* csv.reader(...).next(): the cells of the first line
csv_reader_next(disk) == disk[1].cells

\* mutant: open(datafile, 'wb') truncates the file
open_wb(disk) == <<>>

\* open(datafile, 'ab') keeps what the file holds
open_ab(disk) == disk

\* mutant: the buffered lines are dropped
not_flushed(disk, buffer) == disk

\* closing the file object, or the interpreter exiting, writes the buffer out
flushed(disk, buffer) == disk \o buffer

\* mutant: the header already in the file is ignored
header_needed_always(exists, disk, header) == TRUE

\* mutant: a file that has a first line never gets another header
header_needed_if_empty(exists, disk, header) == ~exists \/ Len(disk) = 0

(* Experiment._write_header: is a header line written? *)
header_needed(exists, disk, header) ==
    IF ~exists THEN TRUE                    \* open(datafile, 'rb') fails
    ELSE IF Len(disk) = 0 THEN TRUE         \* empty file
    ELSE header # csv_reader_next(disk)

\* mutant: _write_header returns its local write_head
write_header_returns_write_head(wrote) == IF wrote THEN "true" ELSE "false"

(* Experiment._write_header: the value returned to loop_trials *)
write_header_returns(wrote) == "false"

----------------------------------------------------------------------------
(* Experiment.post_trial *)

\* mutant: the first key of the list is scored
post_trial_first(t, keys) ==
    IF Len(keys) > 0
    THEN LET thisResp == keys[1]
             subjResp == Num(validResponses[thisResp[1]])
         IN  [t EXCEPT !["subjResp"] = subjResp,
                       !["accuracy"] = Str(signalDet[t["corrResp"] = subjResp]),
                       !["rt"] = Num(thisResp[2])]
    ELSE [t EXCEPT !["subjResp"] = Str(""),
                   !["accuracy"] = Str(""),
                   !["rt"] = Str("")]

\* mutant: without a key accuracy is 'No response', as the docstring has it
post_trial_docstring(t, keys) ==
    IF Len(keys) > 0
    THEN LET thisResp == keys[Len(keys)]
             subjResp == Num(validResponses[thisResp[1]])
         IN  [t EXCEPT !["subjResp"] = subjResp,
                       !["accuracy"] = Str(signalDet[t["corrResp"] = subjResp]),
                       !["rt"] = Num(thisResp[2])]
    ELSE [t EXCEPT !["subjResp"] = Str(""),
                   !["accuracy"] = Str("No response"),
                   !["rt"] = Str("")]

post_trial(t, keys) ==
    IF Len(keys) > 0
    THEN LET thisResp == keys[Len(keys)]
             subjResp == Num(validResponses[thisResp[1]])
         IN  [t EXCEPT !["subjResp"] = subjResp,
                       !["accuracy"] = Str(signalDet[t["corrResp"] = subjResp]),
                       !["rt"] = Num(thisResp[2])]
    ELSE [t EXCEPT !["subjResp"] = Str(""),
                   !["accuracy"] = Str(""),
                   !["rt"] = Str("")]

\* x *= n in Python: a number is multiplied, '' * n is ''
times(v, n) == IF IsNum(v) THEN Num(v[2] * n) ELSE v

(* loop_trials, "correct the timing" *)
correct_timing(t, autorun) ==
    IF autorun > 0
    THEN IF "autoRT" \in DOMAIN t
         THEN [t EXCEPT !["autoRT"] = times(@, autorun),
                        !["rt"] = times(@, autorun),
                        !["onset"] = times(@, autorun)]
         ELSE t                              \* KeyError, except: pass
    ELSE t

values(t, keys) == [i \in 1..Len(keys) |-> t[keys[i]]]

----------------------------------------------------------------------------
(* What an experiment script defines: create_trial, create_trialList *)

AutorunSpeeds == {0, 2} \* runParams['autorun']: 0, or the speed of an automatic run
NTypes == 2             \* len(trialList)

\* the ordered keys of a trial record, as create_trialList may define them
FieldsA == <<"cond", "onset", "dur", "corrResp", "subjResp", "accuracy", "rt">>
FieldsB == <<"cond", "corrResp", "onset", "dur", "subjResp", "accuracy", "rt">>
FieldLists == {FieldsA, FieldsB}

\* create_trial: a zero-duration event followed by a timed one; 'display' is
\* one drawable ("drawable") or a list or tuple of drawables ("list")
create_trial ==
    << [dur |-> 0, func |-> "idle_event", display |-> "drawable"],
       [dur |-> 2, func |-> "idle_event", display |-> "drawable"] >>

RECURSIVE SumDur(_)
SumDur(evs) == IF evs = <<>> THEN 0 ELSE evs[1].dur + SumDur(Tail(evs))

create_trialList ==
    [c \in 1..NTypes |->
        [cond |-> Num(c), onset |-> Str(""), dur |-> Num(SumDur(create_trial)),
         corrResp |-> Num(c % 2),
         subjResp |-> Str(""), accuracy |-> Str(""), rt |-> Str("")]]

\* the draws of set_autorun in these runs: random.choice among the response
\* keys and np.random.normal (in ticks), one draw of each per trial
AutoKeys == {"1"}
NormalSamples == {2}
AutoResps == [1..NTypes -> AutoKeys]
AutoSamples == [1..NTypes -> NormalSamples]

(* Experiment.set_autorun *)
autorun_trial(evs, speed) == [i \in 1..Len(evs) |-> [evs[i] EXCEPT !.dur = @ \div speed]]

autorun_rt(evs, speed, sample) == evs[1].dur + (sample \div speed)

set_autorun(tl, evs, speed, resp, samples) ==
    [c \in 1..Len(tl) |->
        [k \in DOMAIN tl[c] \cup {"autoResp", "autoRT"} |->
            IF k = "autoResp" THEN Str(resp[c])
            ELSE IF k = "autoRT" THEN Num(autorun_rt(autorun_trial(evs, speed), speed, samples[c]))
            ELSE tl[c][k]]]

\* the orders in which a TrialHandler yields the trials: each repetition is
\* the trial list in order (sequential) or shuffled (random)
Perms(n) == {p \in [1..n -> 1..n] : \A a, b \in 1..n : p[a] = p[b] => a = b}

RECURSIVE Orders(_, _)
Orders(n, reps) ==
    IF reps = 0 THEN {<<>>}
    ELSE {p \o rest : p \in Perms(n), rest \in Orders(n, reps - 1)}

----------------------------------------------------------------------------
Init ==
    /\ pc = "idle"
    /\ runNo = 0
    /\ store = <<>>
    /\ fileExists = FALSE
    /\ dfile = "none"
    /\ dbuf = <<>>
    /\ write_head = "unbound"
    /\ win = "none"
    /\ winCloses = 0
    /\ keyBuffer = <<>>
    /\ runParams = [noOutput |-> FALSE, autorun |-> 0]
    /\ trial = <<>>
    /\ trialDur = 0
    /\ trialList = <<>>
    /\ fields = <<>>
    /\ sequence = <<>>
    /\ trialNo = 0
    /\ j = 0
    /\ thisTrial = <<>>
    /\ allKeys = <<>>
    /\ globClock = 0
    /\ trialClock = 0
    /\ eventClock = 0
    /\ nReps = 1
    /\ log = <<>>
    /\ storeAtStart = <<>>
    /\ call = <<>>
    /\ od = <<>>

Entry(e, n, k) == [e |-> e, n |-> n, k |-> k]

(* A key is pressed while the window of a running experiment is open *)
PressKey ==
    /\ pc \notin {"idle", "finished", "aborted", "crashed"}
    /\ win = "open"
    /\ Len(keyBuffer) < MaxKeys
    /\ \E k \in Keyboard : keyBuffer' = Append(keyBuffer, k)
    /\ UNCHANGED <<pc, runNo, store, fileExists, dfile, dbuf, write_head, win,
                   winCloses, runParams, trial, trialDur, trialList, fields,
                   sequence, trialNo, j, thisTrial, allKeys, globClock,
                   trialClock, eventClock, nReps, log, storeAtStart>>
    /\ UNCHANGED <<call, od>>

(* The file object writes its full buffer to disk *)
FlushBuffer ==
    /\ dfile = "open"
    /\ dbuf # <<>>
    /\ store' = flushed(store, dbuf)
    /\ dbuf' = <<>>
    /\ UNCHANGED <<pc, runNo, fileExists, dfile, write_head, win, winCloses,
                   keyBuffer, runParams, trial, trialDur, trialList, fields,
                   sequence, trialNo, j, thisTrial, allKeys, globClock,
                   trialClock, eventClock, nReps, log, storeAtStart>>
    /\ UNCHANGED <<call, od>>

(* Experiment.__init__ of a new run of the script on the same data file *)
Experiment_init ==
    /\ pc \in {"idle", "finished", "aborted", "crashed"}
    /\ runNo < MaxRuns
    /\ runNo' = runNo + 1
    /\ pc' = "setup"
    /\ \E no \in BOOLEAN, speed \in AutorunSpeeds :
          runParams' = [noOutput |-> no, autorun |-> speed]
    /\ fields' = <<>>
    /\ \E r \in 1..MaxReps : nReps' = r
    /\ dfile' = "none"
    /\ dbuf' = <<>>
    /\ write_head' = "unbound"
    /\ win' = "none"
    /\ winCloses' = 0
    /\ keyBuffer' = <<>>
    /\ trial' = <<>>
    /\ trialDur' = 0
    /\ trialList' = <<>>
    /\ sequence' = <<>>
    /\ trialNo' = 0
    /\ j' = 0
    /\ thisTrial' = <<>>
    /\ allKeys' = <<>>
    /\ globClock' = 0
    /\ trialClock' = 0
    /\ eventClock' = 0
    /\ log' = <<>>
    /\ storeAtStart' = store
    /\ UNCHANGED <<store, fileExists>>
    /\ UNCHANGED <<call, od>>

(* The interpreter exits (sys.exit or an uncaught exception): the file      *)
(* object of loop_trials, if open, is flushed and closed.                   *)
exit_files ==
    /\ store' = flushed(store, dbuf)
    /\ dbuf' = <<>>
    /\ dfile' = IF dfile = "open" THEN "closed" ELSE dfile

(* An uncaught exception ends the run *)
crash ==
    /\ pc' = "crashed"
    /\ exit_files
    /\ UNCHANGED <<win, winCloses>>

\* mutant: quit leaves the window open
quit_without_close ==
    /\ pc' = "aborted"
    /\ exit_files
    /\ UNCHANGED <<win, winCloses>>

(* Experiment.quit: self.win.close(), core.quit() *)
quit ==
    IF win = "none"
    THEN crash                          \* AttributeError: no self.win yet
    ELSE /\ win' = "closed"
         /\ winCloses' = winCloses + 1
         /\ pc' = "aborted"
         /\ exit_files

(* Experiment.setup: set_logging, create_win, create_stimuli, create_trial, *)
(* create_trialList, set_TrialHandler, for a script whose create_trial     *)
(* gives evs and whose create_trialList gives tl with keys from fls; the   *)
(* draws of np.random.normal in set_autorun come from smp.                 *)
setup_of(evs, tl, fls, smp) ==
    /\ pc = "setup"
    /\ log' = Append(log, Entry("setup", 0, 0))
    /\ \E makedirs_ok \in BOOLEAN :
         IF ~runParams.noOutput /\ ~makedirs_ok
         THEN \* try_makedirs fails in set_logging and calls quit
              /\ quit
              /\ UNCHANGED <<trial, trialDur, trialList, fields, sequence>>
         ELSE /\ win' = "open"
              /\ \E f \in fls, resp \in AutoResps, samples \in smp :
                   IF runParams.autorun > 0
                   THEN /\ trial' = autorun_trial(evs, runParams.autorun)
                        /\ trialDur' = SumDur(evs) \div runParams.autorun
                        /\ trialList' = set_autorun(tl, evs, runParams.autorun,
                                                    resp, samples)
                        /\ fields' = f \o <<"autoResp", "autoRT">>
                   ELSE /\ trial' = evs
                        /\ trialDur' = SumDur(evs)
                        /\ trialList' = tl
                        /\ fields' = f
              /\ \E o \in Orders(Len(tl), nReps) : sequence' = o
              /\ pc' = "instructions"
              /\ UNCHANGED <<store, dbuf, dfile, winCloses>>
    /\ UNCHANGED <<runNo, fileExists, write_head, keyBuffer, runParams, trialNo,
                   j, thisTrial, allKeys, globClock, trialClock, eventClock,
                   nReps, storeAtStart>>
    /\ UNCHANGED <<call, od>>

(* setup of the script with create_trial and create_trialList as above *)
setup == setup_of(create_trial, create_trialList, FieldLists, AutoSamples)

\* mutant: "if not self.runParams['autorun']"
waits_unless_autorun(autorun) == autorun = 0

\* show_instructions: "if not self.runParams['autorun'] or True"
waits_for_trigger(autorun) == (autorun = 0) \/ TRUE

(* Experiment.show_instructions, up to the wait for the trigger *)
show_instructions ==
    /\ pc = "instructions"
    /\ log' = Append(log, Entry("instructions", 0, 0))
    /\ pc' = IF waits_for_trigger(runParams.autorun) THEN "wait_trigger"
                                                      ELSE "loop_trials"
    /\ UNCHANGED <<runNo, store, fileExists, dfile, dbuf, write_head, win,
                   winCloses, keyBuffer, runParams, trial, trialDur, trialList,
                   fields, sequence, trialNo, j, thisTrial, allKeys, globClock,
                   trialClock, eventClock, nReps, storeAtStart>>
    /\ UNCHANGED <<call, od>>

(* show_instructions: one iteration of "while thisKey != trigger" *)
wait_trigger ==
    /\ pc = "wait_trigger"
    /\ keyBuffer' = afterGetKeys(keyBuffer, SeqToSet(defaultKeys))
    /\ LET r == last_keypress(keyBuffer)
       IN  IF r.quit
           THEN quit /\ log' = Append(log, Entry("quit", 0, 0))
           ELSE /\ IF r.key = trigger
                   THEN pc' = "loop_trials" /\ log' = Append(log, Entry("trigger", 0, 0))
                   ELSE pc' = pc /\ log' = log
                /\ UNCHANGED <<store, dbuf, dfile, win, winCloses>>
    /\ UNCHANGED <<runNo, fileExists, write_head, runParams, trial, trialDur,
                   trialList, fields, sequence, trialNo, j, thisTrial, allKeys,
                   globClock, trialClock, eventClock, nReps, storeAtStart>>
    /\ UNCHANGED <<call, od>>

(* Experiment.loop_trials, up to the trial loop: open the data file, set up *)
(* the clocks                                                               *)
loop_trials ==
    /\ pc = "loop_trials"
    /\ log' = Append(log, Entry("loop", 0, 0))
    /\ globClock' = 0
    /\ trialClock' = 0
    /\ eventClock' = 0
    /\ trialNo' = 0
    /\ IF runParams.noOutput
       THEN /\ pc' = "next_trial"
            /\ UNCHANGED <<store, fileExists, dfile, dbuf, write_head, win, winCloses>>
       ELSE \E makedirs_ok \in BOOLEAN, open_ok \in BOOLEAN :
              IF ~makedirs_ok
              THEN \* try_makedirs fails and calls quit
                   /\ quit
                   /\ UNCHANGED <<fileExists, write_head>>
              ELSE IF ~open_ok
              THEN \* IOError: a message is printed and the function goes on
                   /\ pc' = "next_trial"
                   /\ UNCHANGED <<store, fileExists, dfile, dbuf, write_head,
                                  win, winCloses>>
              ELSE /\ dfile' = "open"
                   /\ fileExists' = TRUE
                   /\ store' = open_ab(store)
                   /\ dbuf' = <<>>
                   /\ write_head' = "true"
                   /\ pc' = "next_trial"
                   /\ UNCHANGED <<win, winCloses>>
    /\ UNCHANGED <<runNo, keyBuffer, runParams, trial, trialDur, trialList,
                   fields, sequence, j, thisTrial, allKeys, nReps, storeAtStart>>
    /\ UNCHANGED <<call, od>>

(* loop_trials, "for thisTrial in self": the next trial starts *)
next_trial ==
    /\ pc = "next_trial"
    /\ trialNo < Len(sequence)
    /\ trialClock' = 0
    /\ LET c == sequence[trialNo + 1]
       IN  /\ thisTrial' = [trialList[c] EXCEPT !["onset"] = Num(globClock)]
           /\ trialList' = [trialList EXCEPT ![c] = thisTrial']
    /\ allKeys' = <<>>
    /\ j' = 1
    /\ pc' = "event"
    /\ UNCHANGED <<runNo, store, fileExists, dfile, dbuf, write_head, win,
                   winCloses, keyBuffer, runParams, trial, trialDur, fields,
                   sequence, trialNo, globClock, eventClock, nReps, log,
                   storeAtStart>>
    /\ UNCHANGED <<call, od>>

(* loop_trials after the last trial: "if not noOutput: dfile.close()" *)
end_loop ==
    /\ pc = "next_trial"
    /\ trialNo >= Len(sequence)
    /\ log' = Append(log, Entry("end", 0, 0))
    /\ IF runParams.noOutput
       THEN /\ pc' = "finished"
            /\ UNCHANGED <<store, dbuf, dfile, win, winCloses>>
       ELSE IF dfile = "none"
       THEN crash                        \* NameError: dfile was never bound
       ELSE /\ store' = flushed(store, dbuf)
            /\ dbuf' = <<>>
            /\ dfile' = "closed"
            /\ pc' = "finished"
            /\ UNCHANGED <<win, winCloses>>
    /\ UNCHANGED <<runNo, fileExists, write_head, keyBuffer, runParams, trial,
                   trialDur, trialList, fields, sequence, trialNo, j, thisTrial,
                   allKeys, globClock, trialClock, eventClock, nReps,
                   storeAtStart>>
    /\ UNCHANGED <<call, od>>

\* idle_event, feedback: the local display is assigned only under "if not
\* isinstance(thisEvent['display'], tuple) and not isinstance(..., list)"
display_bound(thisEvent) == thisEvent.display # "list"

(* loop_trials calls thisEvent['func']; Experiment.idle_event up to its     *)
(* wait loop                                                                *)
idle_event ==
    /\ pc = "event"
    /\ trial[j].func = "idle_event"
    /\ eventClock' = 0
    /\ IF trial[j].dur = 0
       THEN /\ keyBuffer' = afterGetKeys(keyBuffer, SeqToSet(defaultKeys))
            /\ IF last_keypress(keyBuffer).quit
               THEN /\ quit
                    /\ log' = log \o <<Entry("event", trialNo + 1, j), Entry("quit", trialNo + 1, j)>>
               ELSE IF ~display_bound(trial[j])
               THEN \* NameError at "for stim in display"
                    /\ crash
                    /\ log' = log \o <<Entry("event", trialNo + 1, j), Entry("NameError", trialNo + 1, j)>>
               ELSE /\ pc' = "collect"
                    /\ log' = Append(log, Entry("event", trialNo + 1, j))
                    /\ UNCHANGED <<store, dbuf, dfile, win, winCloses>>
       ELSE IF ~display_bound(trial[j])
       THEN \* NameError at "for stim in display"
            /\ crash
            /\ log' = log \o <<Entry("event", trialNo + 1, j), Entry("NameError", trialNo + 1, j)>>
            /\ UNCHANGED keyBuffer
       ELSE /\ pc' = "idle_wait"
            /\ log' = Append(log, Entry("event", trialNo + 1, j))
            /\ UNCHANGED <<store, dbuf, dfile, win, winCloses, keyBuffer>>
    /\ UNCHANGED <<runNo, fileExists, write_head, runParams, trial, trialDur,
                   trialList, fields, sequence, trialNo, j, thisTrial, allKeys,
                   globClock, trialClock, nReps, storeAtStart>>
    /\ UNCHANGED <<call, od>>

\* idle_event: the condition of its wait loop
idle_waits(evClock, trClock, thisEvent, t) ==
    evClock < thisEvent.dur /\ trClock < t["dur"][2]

(* idle_event: one iteration of the wait loop, or its end *)
idle_wait ==
    /\ pc = "idle_wait"
    /\ IF idle_waits(eventClock, trialClock, trial[j], thisTrial)
       THEN /\ keyBuffer' = afterGetKeys(keyBuffer, SeqToSet(defaultKeys))
            /\ globClock' = globClock + 1
            /\ trialClock' = trialClock + 1
            /\ eventClock' = eventClock + 1
            /\ IF last_keypress(keyBuffer).quit
               THEN quit /\ log' = Append(log, Entry("quit", trialNo + 1, j))
               ELSE /\ pc' = pc
                    /\ log' = log
                    /\ UNCHANGED <<store, dbuf, dfile, win, winCloses>>
       ELSE /\ pc' = "collect"
            /\ UNCHANGED <<keyBuffer, globClock, trialClock, eventClock, log,
                           store, dbuf, dfile, win, winCloses>>
    /\ UNCHANGED <<runNo, fileExists, write_head, runParams, trial, trialDur,
                   trialList, fields, sequence, trialNo, j, thisTrial, allKeys,
                   nReps, storeAtStart>>
    /\ UNCHANGED <<call, od>>

\* event.getKeys(keyList, timeStamped=clock): the keys with their times
stamped(keys, clock) == [i \in 1..Len(keys) |-> <<keys[i], clock>>]

(* loop_trials after the handler returned: collect the response keys *)
collect ==
    /\ pc = "collect"
    /\ allKeys' = allKeys \o stamped(getKeys(keyBuffer, validKeys), trialClock)
    /\ keyBuffer' = afterGetKeys(keyBuffer, validKeys)
    /\ IF j < Len(trial)
       THEN j' = j + 1 /\ pc' = "event"
       ELSE j' = j /\ pc' = "post_trial"
    /\ UNCHANGED <<runNo, store, fileExists, dfile, dbuf, write_head, win,
                   winCloses, runParams, trial, trialDur, trialList, fields,
                   sequence, trialNo, thisTrial, globClock, trialClock,
                   eventClock, nReps, log, storeAtStart>>
    /\ UNCHANGED <<call, od>>

\* mutant: the row is written only together with the header
trial_lines_under_head(wh, exists, disk, header, t, run, no) ==
    IF wh = "true"
    THEN (IF header_needed(exists, disk, header) THEN <<header_line(header, run)>> ELSE <<>>)
         \o <<row_line(header, extraInfo_values \o values(t, SubSeq(header, Len(extraInfo_keys) + 1, Len(header))), run, no)>>
    ELSE <<>>

\* loop_trials: the lines written for one trial
trial_lines(wh, exists, disk, header, t, run, no) ==
    (IF wh = "true" /\ header_needed(exists, disk, header)
     THEN <<header_line(header, run)>> ELSE <<>>)
    \o <<row_line(header, extraInfo_values \o values(t, SubSeq(header, Len(extraInfo_keys) + 1, Len(header))), run, no)>>

(* loop_trials, the end of a trial: post_trial, timing correction, output *)
end_trial ==
    /\ pc = "post_trial"
    /\ LET t == correct_timing(post_trial(thisTrial, allKeys), runParams.autorun)
           header == extraInfo_keys \o fields
       IN  /\ thisTrial' = t
           /\ trialList' = [trialList EXCEPT ![sequence[trialNo + 1]] = t]
           /\ IF runParams.noOutput
              THEN /\ trialNo' = trialNo + 1
                   /\ pc' = "next_trial"
                   /\ log' = log
                   /\ UNCHANGED <<store, dbuf, dfile, write_head, win, winCloses>>
              ELSE IF write_head = "unbound"
              THEN \* NameError: write_head was never bound
                   /\ crash
                   /\ log' = log
                   /\ UNCHANGED <<write_head, trialNo>>
              ELSE /\ dbuf' = dbuf \o trial_lines(write_head, fileExists, store,
                                                   header, t, runNo, trialNo + 1)
                   /\ write_head' = IF write_head = "true"
                                    THEN write_header_returns(header_needed(fileExists, store, header))
                                    ELSE write_head
                   /\ trialNo' = trialNo + 1
                   /\ pc' = "next_trial"
                   /\ log' = Append(log, Entry("row", trialNo + 1, 0))
                   /\ UNCHANGED <<store, dfile, win, winCloses>>
    /\ UNCHANGED <<runNo, fileExists, keyBuffer, runParams, trial, trialDur,
                   fields, sequence, j, allKeys, globClock, trialClock,
                   eventClock, nReps, storeAtStart>>
    /\ UNCHANGED <<call, od>>

Next ==
    \/ PressKey
    \/ FlushBuffer
    \/ Experiment_init
    \/ setup
    \/ show_instructions
    \/ wait_trigger
    \/ loop_trials
    \/ next_trial
    \/ end_loop
    \/ idle_event
    \/ idle_wait
    \/ collect
    \/ end_trial

Spec == Init /\ [][Next]_vars

----------------------------------------------------------------------------
(* One run of a script whose events use idle_event, feedback and a handler *)
(* that returns self.wait_for_response(RT_clock=trialClock), with          *)
(* fakeKey=(autoResp, autoRT) of the trial under autorun; the participant  *)
(* presses response keys.                                                  *)

MaxWait == 3          \* ticks a wait for a response may last

Event(func, dur) == [dur |-> dur, func |-> func, display |-> "drawable"]

\* create_trial of the scripts
Scripts ==
    { <<Event("idle_event", 1), Event("feedback", 2)>>,
      <<Event("during_trial", 0), Event("feedback", 1)>>,
      <<Event("during_trial", 0), Event("idle_event", 2)>> }

\* create_trialList of the scripts: one trial type, 'dur' is the total
\* duration of the trial
script_trialList(evs) ==
    << [create_trialList[1] EXCEPT !["dur"] = Num(SumDur(evs))] >>

\* the draws of np.random.normal (in ticks) in the runs of the scripts
ScriptNormalSamples == {-2, 2}
ScriptSamples == [1..1 -> ScriptNormalSamples]

InitScript ==
    /\ pc = "setup"
    /\ runNo = 1
    /\ store = <<>>
    /\ fileExists = FALSE
    /\ dfile = "none"
    /\ dbuf = <<>>
    /\ write_head = "unbound"
    /\ win = "none"
    /\ winCloses = 0
    /\ keyBuffer = <<>>
    /\ \E speed \in AutorunSpeeds : runParams = [noOutput |-> FALSE, autorun |-> speed]
    /\ trial \in Scripts
    /\ trialDur = 0
    /\ trialList = <<>>
    /\ fields = <<>>
    /\ sequence = <<>>
    /\ trialNo = 0
    /\ j = 0
    /\ thisTrial = <<>>
    /\ allKeys = <<>>
    /\ globClock = 0
    /\ trialClock = 0
    /\ eventClock = 0
    /\ nReps \in 1..MaxReps
    /\ log = <<>>
    /\ storeAtStart = <<>>
    /\ call = <<>>
    /\ od = <<>>

(* Experiment.setup of a script *)
setup_script == setup_of(trial, script_trialList(trial), {FieldsA}, ScriptSamples)

\* the response keys the participant uses
ResponseKeys == {"1"}

(* The participant presses a response key *)
Respond ==
    /\ pc \notin {"idle", "finished", "aborted", "crashed"}
    /\ win = "open"
    /\ Len(keyBuffer) < MaxKeys
    /\ \E k \in ResponseKeys : keyBuffer' = Append(keyBuffer, k)
    /\ UNCHANGED <<pc, runNo, store, fileExists, dfile, dbuf, write_head, win,
                   winCloses, runParams, trial, trialDur, trialList, fields,
                   sequence, trialNo, j, thisTrial, allKeys, globClock,
                   trialClock, eventClock, nReps, log, storeAtStart>>
    /\ UNCHANGED <<call, od>>

(* loop_trials calls thisEvent['func']; Experiment.feedback up to its wait  *)
(* loop: "thisResp = allKeys[-1]" raises IndexError on an empty list,       *)
(* "validResponses[thisResp[0]]" raises KeyError for a key outside the table *)
feedback ==
    /\ pc = "event"
    /\ trial[j].func = "feedback"
    /\ eventClock' = 0
    /\ log' = Append(log, Entry("event", trialNo + 1, j))
    /\ IF \/ allKeys = <<>>
          \/ allKeys[Len(allKeys)][1] \notin DOMAIN validResponses
          \/ ~display_bound(trial[j])       \* NameError at "for stim in display"
       THEN crash
       ELSE /\ pc' = "feedback_wait"
            /\ UNCHANGED <<store, dbuf, dfile, win, winCloses>>
    /\ UNCHANGED <<runNo, fileExists, write_head, keyBuffer, runParams, trial,
                   trialDur, trialList, fields, sequence, trialNo, j, thisTrial,
                   allKeys, globClock, trialClock, nReps, storeAtStart>>
    /\ UNCHANGED <<call, od>>

\* feedback: the condition of its wait loop
feedback_waits(evClock, trClock, thisEvent, t) == evClock < thisEvent.dur

(* feedback: one iteration of the wait loop, or its end *)
feedback_wait ==
    /\ pc = "feedback_wait"
    /\ IF feedback_waits(eventClock, trialClock, trial[j], thisTrial)
       THEN /\ keyBuffer' = afterGetKeys(keyBuffer, SeqToSet(defaultKeys))
            /\ globClock' = globClock + 1
            /\ trialClock' = trialClock + 1
            /\ eventClock' = eventClock + 1
            /\ IF last_keypress(keyBuffer).quit
               THEN quit /\ log' = Append(log, Entry("quit", trialNo + 1, j))
               ELSE /\ pc' = pc
                    /\ log' = log
                    /\ UNCHANGED <<store, dbuf, dfile, win, winCloses>>
       ELSE /\ pc' = "collect"
            /\ UNCHANGED <<keyBuffer, globClock, trialClock, eventClock, log,
                           store, dbuf, dfile, win, winCloses>>
    /\ UNCHANGED <<runNo, fileExists, write_head, runParams, trial, trialDur,
                   trialList, fields, sequence, trialNo, j, thisTrial, allKeys,
                   nReps, storeAtStart>>
    /\ UNCHANGED <<call, od>>

\* the script's handler passes fakeKey under autorun only
synthesized(t) == "autoRT" \in DOMAIN t
fakeKey(t) == <<t["autoResp"][2], t["autoRT"][2]>>

(* The script's handler calls wait_for_response, which starts with         *)
(* "allKeys = []; event.clearEvents()"                                     *)
during_trial ==
    /\ pc = "event"
    /\ trial[j].func = "during_trial"
    /\ eventClock' = 0
    /\ keyBuffer' = <<>>
    /\ pc' = "wait_for_response"
    /\ log' = Append(log, Entry("event", trialNo + 1, j))
    /\ UNCHANGED <<runNo, store, fileExists, dfile, dbuf, write_head, win,
                   winCloses, runParams, trial, trialDur, trialList, fields,
                   sequence, trialNo, j, thisTrial, allKeys, globClock,
                   trialClock, nReps, storeAtStart>>
    /\ UNCHANGED <<call, od>>

\* mutant: the synthesized key is injected as soon as its time is reached
fake_due_at(clock, fk) == clock >= fk[2]

\* wait_for_response: "RT_clock.getTime() > fakeKey[1]"
fake_due(clock, fk) == clock > fk[2]

\* wait_for_response: the keys one iteration of its loop finds
response_keys(buffer, clock, t) ==
    IF synthesized(t)
    THEN (IF fake_due(clock, fakeKey(t)) THEN <<fakeKey(t)>> ELSE <<>>)
    ELSE stamped(getKeys(buffer, validKeys), clock)

(* wait_for_response: one iteration of "while len(allKeys) == 0", and the   *)
(* return to loop_trials, which adds the returned keys to the trial's list  *)
wait_for_response ==
    /\ pc = "wait_for_response"
    /\ LET found == response_keys(keyBuffer, trialClock, thisTrial)
           buffer == IF synthesized(thisTrial) THEN keyBuffer
                     ELSE afterGetKeys(keyBuffer, validKeys)
       IN  /\ keyBuffer' = afterGetKeys(buffer, SeqToSet(defaultKeys))
           /\ IF last_keypress(buffer).quit
              THEN /\ quit
                   /\ log' = Append(log, Entry("quit", trialNo + 1, j))
                   /\ UNCHANGED <<allKeys, globClock, trialClock, eventClock>>
              ELSE IF Len(found) > 0
              THEN /\ allKeys' = allKeys \o found
                   /\ pc' = "collect"
                   /\ log' = Append(log, Entry("returned", trialClock, found))
                   /\ UNCHANGED <<globClock, trialClock, eventClock, store, dbuf,
                                  dfile, win, winCloses>>
              ELSE /\ trialClock < MaxWait
                   /\ globClock' = globClock + 1
                   /\ trialClock' = trialClock + 1
                   /\ eventClock' = eventClock + 1
                   /\ pc' = pc
                   /\ log' = log
                   /\ UNCHANGED <<allKeys, store, dbuf, dfile, win, winCloses>>
    /\ UNCHANGED <<runNo, fileExists, write_head, runParams, trial, trialDur,
                   trialList, fields, sequence, trialNo, j, thisTrial, nReps,
                   storeAtStart>>
    /\ UNCHANGED <<call, od>>

NextScript ==
    \/ PressKey
    \/ Respond
    \/ setup_script
    \/ show_instructions
    \/ wait_trigger
    \/ loop_trials
    \/ next_trial
    \/ end_loop
    \/ idle_event
    \/ idle_wait
    \/ feedback
    \/ feedback_wait
    \/ during_trial
    \/ wait_for_response
    \/ collect
    \/ end_trial

SpecScript == InitScript /\ [][NextScript]_vars

----------------------------------------------------------------------------
(* post_trial on its own: called with any trial record and any list of     *)
(* timestamped keys that the handlers and loop_trials may have collected   *)

MaxResp == 2          \* keys collected in one trial
MaxTime == 2          \* latest timestamp of a key, in ticks

\* keys an event handler may return: the response keys and one more
HandlerKeys == validKeys \cup {"x"}

KeyLists == UNION {[1..n -> HandlerKeys \X (0..MaxTime)] : n \in 0..MaxResp}

\* trial records as loop_trials passes them: fresh from create_trialList, or
\* the same dict as scored in an earlier repetition
ScoreTrials ==
    {create_trialList[c] : c \in 1..NTypes}
    \cup {post_trial(create_trialList[c], << <<"1", 1>> >>) : c \in 1..NTypes}

InitScore ==
    /\ pc = "score"
    /\ thisTrial \in ScoreTrials
    /\ allKeys \in KeyLists
    /\ runNo = 1
    /\ store = <<>>
    /\ fileExists = FALSE
    /\ dfile = "none"
    /\ dbuf = <<>>
    /\ write_head = "unbound"
    /\ win = "none"
    /\ winCloses = 0
    /\ keyBuffer = <<>>
    /\ runParams = [noOutput |-> TRUE, autorun |-> 0]
    /\ trial = <<>>
    /\ trialDur = 0
    /\ trialList = <<>>
    /\ fields = <<>>
    /\ sequence = <<>>
    /\ trialNo = 0
    /\ j = 0
    /\ globClock = 0
    /\ trialClock = 0
    /\ eventClock = 0
    /\ nReps = 1
    /\ log = <<>>
    /\ storeAtStart = <<>>
    /\ call = <<>>
    /\ od = <<>>

\* post_trial: "validResponses[thisResp[0]]" raises KeyError
post_trial_raises(keys) ==
    Len(keys) > 0 /\ keys[Len(keys)][1] \notin DOMAIN validResponses

(* thisTrial = self.post_trial(thisTrial, allKeys); allKeys.pop() takes the *)
(* last key off the caller's list. The log keeps the arguments.             *)
score ==
    /\ pc = "score"
    /\ log' = Append(log, Entry("post_trial", thisTrial, allKeys))
    /\ allKeys' = IF Len(allKeys) > 0 THEN SubSeq(allKeys, 1, Len(allKeys) - 1)
                                      ELSE allKeys
    /\ IF post_trial_raises(allKeys)
       THEN crash /\ thisTrial' = thisTrial
       ELSE /\ thisTrial' = post_trial(thisTrial, allKeys)
            /\ pc' = "scored"
            /\ UNCHANGED <<store, dbuf, dfile, win, winCloses>>
    /\ UNCHANGED <<runNo, fileExists, write_head, keyBuffer, runParams, trial,
                   trialDur, trialList, fields, sequence, trialNo, j, globClock,
                   trialClock, eventClock, nReps, storeAtStart>>
    /\ UNCHANGED <<call, od>>

NextScore == score

SpecScore == InitScore /\ [][NextScore]_vars

----------------------------------------------------------------------------
(* Instances of Experiment constructed with a seed and set up one after the *)
(* other, with the same trial list and method 'random': the order of their  *)
(* trial sequences                                                          *)

MaxSeed == 2          \* seeds passed to Experiment(seed=...)
MaxNow == 2           \* epoch time, in seconds, at which set_logging runs

\* set_logging: RunTimeInfo(randomSeed='set:time') takes the seed from the
\* time of the run, 'experimentRandomSeed.string'; self.seed = int(seed)
RunTimeInfo_seed(now) == now

\* TrialHandler(trialList, nReps, method='random', seed): each repetition is
\* a permutation drawn from a generator seeded with seed, so the order is a
\* function of seed, len(trialList) and nReps
RECURSIVE TrialHandler_order(_, _, _)
TrialHandler_order(s, n, reps) ==
    IF reps = 0 THEN <<>>
    ELSE [i \in 1..n |-> ((i - 1 + s + reps) % n) + 1]
         \o TrialHandler_order(s, n, reps - 1)

InitSeed == Init

(* Experiment.__init__(seed=s, nReps=r, runParams={'autorun': speed}): the  *)
(* seed argument is not stored. The log keeps the arguments of every        *)
(* instance.                                                                *)
Experiment_seeded ==
    /\ pc \in {"idle", "instructions"}
    /\ runNo < MaxRuns
    /\ runNo' = runNo + 1
    /\ pc' = "setup"
    /\ \E s \in 0..MaxSeed, r \in 1..MaxReps, speed \in AutorunSpeeds :
         /\ nReps' = r
         /\ runParams' = [noOutput |-> TRUE, autorun |-> speed]
         /\ log' = Append(log, Entry("init", runNo + 1, <<s, r, speed>>))
    /\ fields' = <<>>
    /\ dfile' = "none"
    /\ dbuf' = <<>>
    /\ write_head' = "unbound"
    /\ win' = "none"
    /\ winCloses' = 0
    /\ keyBuffer' = <<>>
    /\ trial' = <<>>
    /\ trialDur' = 0
    /\ trialList' = <<>>
    /\ sequence' = <<>>
    /\ trialNo' = 0
    /\ j' = 0
    /\ thisTrial' = <<>>
    /\ allKeys' = <<>>
    /\ globClock' = 0
    /\ trialClock' = 0
    /\ eventClock' = 0
    /\ storeAtStart' = store
    /\ UNCHANGED <<store, fileExists>>
    /\ UNCHANGED <<call, od>>

\* the seeds that set_logging gave to the instances so far
SeedsSoFar == {log[i].k : i \in {i \in 1..Len(log) : log[i].e = "seed"}}

\* the draws of set_autorun in these setups: random.choice among the
\* response keys, np.random.normal (in ticks); no code of Experiment seeds
\* either generator with self.seed
SeedResps == [1..NTypes -> validKeys]
SeedSamples == [1..NTypes -> ScriptNormalSamples]

\* what set_autorun assigned: autoResp and autoRT of every trial
synthesized_values(tl) ==
    [c \in 1..Len(tl) |->
        IF synthesized(tl[c]) THEN fakeKey(tl[c]) ELSE <<>>]

(* Experiment.setup without output: set_logging takes self.seed from the    *)
(* time, which does not go back between instances; set_TrialHandler calls   *)
(* set_autorun under autorun and passes seed=self.seed to the TrialHandler. *)
setup_seeded ==
    /\ pc = "setup"
    /\ \E resp \in SeedResps, samples \in SeedSamples :
         IF runParams.autorun > 0
         THEN /\ trial' = autorun_trial(create_trial, runParams.autorun)
              /\ trialDur' = SumDur(create_trial) \div runParams.autorun
              /\ trialList' = set_autorun(create_trialList, create_trial,
                                          runParams.autorun, resp, samples)
              /\ fields' = FieldsA \o <<"autoResp", "autoRT">>
         ELSE /\ trial' = create_trial
              /\ trialDur' = SumDur(create_trial)
              /\ trialList' = create_trialList
              /\ fields' = FieldsA
    /\ \E now \in 0..MaxNow :
         /\ \A before \in SeedsSoFar : RunTimeInfo_seed(now) >= before
         /\ sequence' = TrialHandler_order(RunTimeInfo_seed(now), NTypes, nReps)
         /\ log' = log \o << Entry("seed", runNo, RunTimeInfo_seed(now)),
                             Entry("order", runNo, sequence'),
                             Entry("auto", runNo, synthesized_values(trialList')) >>
    /\ win' = "open"
    /\ pc' = "instructions"
    /\ UNCHANGED <<runNo, store, fileExists, dfile, dbuf, write_head, winCloses,
                   keyBuffer, runParams, trialNo, j, thisTrial, allKeys,
                   globClock, trialClock, eventClock, nReps, storeAtStart>>
    /\ UNCHANGED <<call, od>>

NextSeed ==
    \/ Experiment_seeded
    \/ setup_seeded

SpecSeed == InitSeed /\ [][NextSeed]_vars

----------------------------------------------------------------------------
(* One instance started by run() or by autorun(), with the runParams the   *)
(* caller gave it; the events of its script show one drawable or a list    *)
(* of drawables.                                                           *)

with_display(evs, form) == [i \in 1..Len(evs) |-> [evs[i] EXCEPT !.display = form]]

\* create_trial of the scripts
ModeScripts == {with_display(create_trial, "drawable"), with_display(create_trial, "list")}

InitModes ==
    /\ pc = "constructed"
    /\ runNo = 1
    /\ store = <<>>
    /\ fileExists = FALSE
    /\ dfile = "none"
    /\ dbuf = <<>>
    /\ write_head = "unbound"
    /\ win = "none"
    /\ winCloses = 0
    /\ keyBuffer = <<>>
    /\ \E no \in BOOLEAN, speed \in AutorunSpeeds :
          runParams = [noOutput |-> no, autorun |-> speed]
    /\ trial \in ModeScripts
    /\ trialDur = 0
    /\ trialList = <<>>
    /\ fields = <<>>
    /\ sequence = <<>>
    /\ trialNo = 0
    /\ j = 0
    /\ thisTrial = <<>>
    /\ allKeys = <<>>
    /\ globClock = 0
    /\ trialClock = 0
    /\ eventClock = 0
    /\ nReps \in 1..MaxReps
    /\ log = <<>>
    /\ storeAtStart = <<>>
    /\ call = <<>>
    /\ od = <<>>

\* the speed autorun() runs at
autorun_speed(specified) == 100

(* Experiment.run is called. The log keeps the speed the caller gave.       *)
Experiment_run ==
    /\ pc = "constructed"
    /\ pc' = "setup"
    /\ log' = Append(log, Entry("run", runParams.autorun, 0))
    /\ UNCHANGED <<runNo, store, fileExists, dfile, dbuf, write_head, win,
                   winCloses, keyBuffer, runParams, trial, trialDur, trialList,
                   fields, sequence, trialNo, j, thisTrial, allKeys, globClock,
                   trialClock, eventClock, nReps, storeAtStart, call, od>>

(* Experiment.autorun is called: self.runParams['autorun'] = 100; run()     *)
Experiment_autorun ==
    /\ pc = "constructed"
    /\ runParams' = [runParams EXCEPT !.autorun = autorun_speed(@)]
    /\ pc' = "setup"
    /\ log' = Append(log, Entry("autorun", runParams.autorun, 0))
    /\ UNCHANGED <<runNo, store, fileExists, dfile, dbuf, write_head, win,
                   winCloses, keyBuffer, trial, trialDur, trialList, fields,
                   sequence, trialNo, j, thisTrial, allKeys, globClock,
                   trialClock, eventClock, nReps, storeAtStart, call, od>>

NextModes ==
    \/ PressKey
    \/ Experiment_run
    \/ Experiment_autorun
    \/ setup_script
    \/ show_instructions
    \/ wait_trigger
    \/ loop_trials
    \/ next_trial
    \/ end_loop
    \/ idle_event
    \/ idle_wait
    \/ collect
    \/ end_trial

SpecModes == InitModes /\ [][NextModes]_vars

----------------------------------------------------------------------------
(* The design functions latin_square, make_para and weighted_sample, each  *)
(* called on its own. Probabilities and the uniform draw are counted in    *)
(* units of 1/Resolution.                                                  *)

MaxN == 6             \* largest n passed to latin_square and make_para
MaxProbs == 3         \* longest vector passed to weighted_sample
Resolution == 4       \* units that make up probability one

\* np.arange(1, n+1)
arange(n) == [p \in 1..n |-> p]

\* np.roll(col, k): the element at position p moves to position p + k
np_roll(col, k) ==
    [p \in 1..Len(col) |-> col[((p - 1 - k + Len(col)) % Len(col)) + 1]]

\* mutant: the even positions count down by one
firstLine_no_halving(n) ==
    [p \in 1..n |->
        LET i == p - 1
        IN  IF i % 2 = 0 THEN ((n - i) % n) + 1
                         ELSE ((i + 1) \div 2) + 1]

\* mutant: the first line is 1, 2, ..., n
firstLine_in_order(n) == [p \in 1..n |-> p]

\* latin_square: firstLine, for i in range(n); "/" divides integers
firstLine(n) ==
    [p \in 1..n |->
        LET i == p - 1
        IN  IF i % 2 = 0 THEN ((n - (i \div 2)) % n) + 1
                         ELSE ((i + 1) \div 2) + 1]

\* latin.T
transposed(m) == [a \in 1..Len(m) |-> [b \in 1..Len(m) |-> m[b][a]]]

(* Experiment.latin_square: sys.exit for an odd n, else the matrix *)
latin_square(n) ==
    IF n % 2 # 0
    THEN [exit |-> TRUE, matrix |-> <<>>]
    ELSE [exit |-> FALSE,
          matrix |-> transposed([r \in 1..n |-> np_roll(arange(n), firstLine(n)[r] - 1)])]

\* thisLatin[::-1]
reversed(row) == [p \in 1..Len(row) |-> row[Len(row) + 1 - p]]

\* make_para: "if i%4 == 0: temp.append(0)" and "temp.append(item)", for the
\* items from index i (0-based) on
RECURSIVE interleaved(_, _)
interleaved(items, i) ==
    IF i >= Len(items) THEN <<>>
    ELSE (IF i % 4 = 0 THEN <<0>> ELSE <<>>) \o <<items[i + 1]>>
         \o interleaved(items, i + 1)

\* mutant: no rest marker at the end of the row
make_para_row_open(thisLatin) ==
    interleaved(thisLatin \o reversed(thisLatin), 0)

\* make_para: one row of the output
make_para_row(thisLatin) ==
    interleaved(thisLatin \o reversed(thisLatin), 0) \o <<0>>

(* Experiment.make_para *)
make_para(n) ==
    LET latin == latin_square(n)
    IN  IF latin.exit THEN latin
        ELSE [exit |-> FALSE,
              matrix |-> [r \in 1..Len(latin.matrix) |-> make_para_row(latin.matrix[r])]]

RECURSIVE SumSeq(_)
SumSeq(s) == IF s = <<>> THEN 0 ELSE s[1] + SumSeq(Tail(s))

\* weighted_sample: the while loop; ind is 0-based, probs[ind] raises
\* IndexError past the end of probs
RECURSIVE sample_loop(_, _, _)
sample_loop(probs, which, ind) ==
    IF which > 0
    THEN IF ind >= Len(probs) THEN [raised |-> TRUE, index |-> ind]
         ELSE sample_loop(probs, which - probs[ind + 1], ind + 1)
    ELSE [raised |-> FALSE, index |-> ind - 1]

(* Experiment.weighted_sample, with which = np.random.random() = u *)
weighted_sample(probs, u) ==
    IF SumSeq(probs) # Resolution
    THEN [raised |-> TRUE, index |-> 0]
    ELSE sample_loop(probs, u, 0)

ProbVectors == UNION {[1..n -> 0..Resolution] : n \in 1..MaxProbs}

DesignCalls ==
    {[func |-> f, n |-> n, probs |-> <<>>, u |-> 0, matrix |-> <<>>, index |-> 0]
        : f \in {"latin_square", "make_para"}, n \in 0..MaxN}
    \cup
    {[func |-> "weighted_sample", n |-> 0, probs |-> p, u |-> u, matrix |-> <<>>, index |-> 0]
        : p \in ProbVectors, u \in 0..(Resolution - 1)}

InitDesign ==
    /\ pc = "call"
    /\ call \in DesignCalls
    /\ runNo = 0
    /\ store = <<>>
    /\ fileExists = FALSE
    /\ dfile = "none"
    /\ dbuf = <<>>
    /\ write_head = "unbound"
    /\ win = "none"
    /\ winCloses = 0
    /\ keyBuffer = <<>>
    /\ runParams = [noOutput |-> FALSE, autorun |-> 0]
    /\ trial = <<>>
    /\ trialDur = 0
    /\ trialList = <<>>
    /\ fields = <<>>
    /\ sequence = <<>>
    /\ trialNo = 0
    /\ j = 0
    /\ thisTrial = <<>>
    /\ allKeys = <<>>
    /\ globClock = 0
    /\ trialClock = 0
    /\ eventClock = 0
    /\ nReps = 1
    /\ log = <<>>
    /\ storeAtStart = <<>>
    /\ od = <<>>

DesignUnchanged ==
    UNCHANGED <<runNo, store, fileExists, dfile, dbuf, write_head, win,
                winCloses, keyBuffer, runParams, trial, trialDur, trialList,
                fields, sequence, trialNo, j, thisTrial, allKeys, globClock,
                trialClock, eventClock, nReps, log, storeAtStart, od>>

(* latin_square(n) is called and returns, or exits *)
call_latin_square ==
    /\ pc = "call"
    /\ call.func = "latin_square"
    /\ LET r == latin_square(call.n)
       IN  /\ pc' = IF r.exit THEN "exited" ELSE "returned"
           /\ call' = [call EXCEPT !.matrix = r.matrix]
    /\ DesignUnchanged

(* make_para(n) is called and returns, or exits *)
call_make_para ==
    /\ pc = "call"
    /\ call.func = "make_para"
    /\ LET r == make_para(call.n)
       IN  /\ pc' = IF r.exit THEN "exited" ELSE "returned"
           /\ call' = [call EXCEPT !.matrix = r.matrix]
    /\ DesignUnchanged

(* weighted_sample(probs) is called and returns, or raises *)
call_weighted_sample ==
    /\ pc = "call"
    /\ call.func = "weighted_sample"
    /\ LET r == weighted_sample(call.probs, call.u)
       IN  /\ pc' = IF r.raised THEN "raised" ELSE "returned"
           /\ call' = [call EXCEPT !.index = r.index]
    /\ DesignUnchanged

NextDesign ==
    \/ call_latin_square
    \/ call_make_para
    \/ call_weighted_sample

SpecDesign == InitDesign /\ [][NextDesign]_vars

----------------------------------------------------------------------------
(* OrderedDict: the trial record and extraInfo are OrderedDicts. The object *)
(* is the dict itself (key --> value) and a doubly linked list of nodes     *)
(* [key, prev, next] around the sentinel node 'end'. Here the nodes are     *)
(* named by their key, the sentinel is END, and 'link' holds prev and next  *)
(* of every node. A script builds a trial record by a sequence of           *)
(* operations; loop_trials then writes its header and its row.              *)

MaxOps == 3           \* operations on the trial record before it is written

DictKeys == {"cond", "resp", "rt"}
DictValues == {Num(0), Num(1)}
END == "END"

\* OrderedDict.clear
OrderedDict_clear ==
    [link |-> [x \in {END} |-> [prev |-> END, next |-> END]],
     dict |-> [x \in {} |-> Num(0)]]

\* mutant: an assignment to an existing key moves the key to the end
OrderedDict_setitem_moves(d, key, value) ==
    LET others == (DOMAIN d.link) \ {key}
        kprev == IF key \in DOMAIN d.link THEN d.link[key].prev ELSE END
        knext == IF key \in DOMAIN d.link THEN d.link[key].next ELSE END
        unlinked == [x \in others |->
                        IF key \in DOMAIN d.link
                        THEN [prev |-> IF x = knext THEN kprev ELSE d.link[x].prev,
                              next |-> IF x = kprev THEN knext ELSE d.link[x].next]
                        ELSE d.link[x]]
        curr == unlinked[END].prev
    IN  [link |-> [x \in others \cup {key} |->
                      IF x = key
                      THEN [prev |-> curr, next |-> END]
                      ELSE [prev |-> IF x = END THEN key ELSE unlinked[x].prev,
                            next |-> IF x = curr THEN key ELSE unlinked[x].next]],
         dict |-> [x \in (DOMAIN d.dict) \cup {key} |->
                      IF x = key THEN value ELSE d.dict[x]]]

\* OrderedDict.__setitem__: a new key gets a node linked in before 'end'
OrderedDict_setitem(d, key, value) ==
    LET curr == d.link[END].prev
        link == IF key \notin DOMAIN d.dict
                THEN [x \in (DOMAIN d.link) \cup {key} |->
                         IF x = key
                         THEN [prev |-> curr, next |-> END]
                         ELSE [prev |-> IF x = END THEN key ELSE d.link[x].prev,
                               next |-> IF x = curr THEN key ELSE d.link[x].next]]
                ELSE d.link
    IN  [link |-> link,
         dict |-> [x \in (DOMAIN d.dict) \cup {key} |->
                      IF x = key THEN value ELSE d.dict[x]]]

\* OrderedDict.__delitem__ of a key that is there: its node is unlinked
OrderedDict_delitem(d, key) ==
    LET prev == d.link[key].prev
        next == d.link[key].next
    IN  [link |-> [x \in (DOMAIN d.link) \ {key} |->
                      [prev |-> IF x = next THEN prev ELSE d.link[x].prev,
                       next |-> IF x = prev THEN next ELSE d.link[x].next]],
         dict |-> [x \in (DOMAIN d.dict) \ {key} |-> d.dict[x]]]

\* OrderedDict.__iter__: the keys from end.next on, until 'end' comes again
RECURSIVE OrderedDict_iter(_, _)
OrderedDict_iter(d, curr) ==
    IF curr = END THEN <<>>
    ELSE <<curr>> \o OrderedDict_iter(d, d.link[curr].next)

\* OrderedDict.keys: list(self)
OrderedDict_keys(d) == OrderedDict_iter(d, d.link[END].next)

\* DictMixin.values: self[key] for the keys of the iteration
OrderedDict_values(d) == values(d.dict, OrderedDict_keys(d))

\* OrderedDict.__init__: clear, then update by the (key, value) pairs given
RECURSIVE OrderedDict_update(_, _)
OrderedDict_update(d, items) ==
    IF items = <<>> THEN d
    ELSE OrderedDict_update(OrderedDict_setitem(d, items[1][1], items[1][2]),
                            Tail(items))

OrderedDict_init(items) == OrderedDict_update(OrderedDict_clear, items)

\* the pairs a script gives to the constructor of a trial record
InitialItems ==
    { <<>>,
      << <<"cond", Num(0)>>, <<"rt", Num(0)>> >>,
      << <<"rt", Num(1)>>, <<"cond", Num(1)>>, <<"resp", Num(0)>> >> }

InitDict ==
    /\ pc = "editing"
    /\ \E items \in InitialItems :
          /\ fields = items
          /\ od = OrderedDict_init(items)
    /\ call = <<>>
    /\ runNo = 1
    /\ store = <<>>
    /\ fileExists = FALSE
    /\ dfile = "none"
    /\ dbuf = <<>>
    /\ write_head = "true"
    /\ win = "none"
    /\ winCloses = 0
    /\ keyBuffer = <<>>
    /\ runParams = [noOutput |-> FALSE, autorun |-> 0]
    /\ trial = <<>>
    /\ trialDur = 0
    /\ trialList = <<>>
    /\ sequence = <<>>
    /\ trialNo = 0
    /\ j = 0
    /\ thisTrial = <<>>
    /\ allKeys = <<>>
    /\ globClock = 0
    /\ trialClock = 0
    /\ eventClock = 0
    /\ nReps = 1
    /\ log = <<>>
    /\ storeAtStart = <<>>

DictUnchanged ==
    UNCHANGED <<runNo, fileExists, dfile, dbuf, win, winCloses, keyBuffer,
                runParams, trial, trialDur, trialList, fields, sequence, j,
                thisTrial, allKeys, globClock, trialClock, eventClock, nReps,
                storeAtStart, call>>

(* thisTrial[key] = value *)
setitem ==
    /\ pc = "editing"
    /\ Len(log) < MaxOps
    /\ \E key \in DictKeys, value \in DictValues :
          /\ od' = OrderedDict_setitem(od, key, value)
          /\ log' = Append(log, Entry("setitem", 0, <<key, value>>))
    /\ UNCHANGED <<pc, store, write_head, trialNo>>
    /\ DictUnchanged

(* del thisTrial[key] *)
delitem ==
    /\ pc = "editing"
    /\ Len(log) < MaxOps
    /\ \E key \in DOMAIN od.dict :
          /\ od' = OrderedDict_delitem(od, key)
          /\ log' = Append(log, Entry("delitem", 0, <<key, Num(0)>>))
    /\ UNCHANGED <<pc, store, write_head, trialNo>>
    /\ DictUnchanged

(* loop_trials: the header and the row of the trial record are written *)
write_trial ==
    /\ pc = "editing"
    /\ LET header == extraInfo_keys \o OrderedDict_keys(od)
           out == extraInfo_values \o OrderedDict_values(od)
       IN  store' = store
                \o (IF write_head = "true" /\ header_needed(fileExists, store, header)
                    THEN <<header_line(header, runNo)>> ELSE <<>>)
                \o <<row_line(header, out, runNo, trialNo + 1)>>
    /\ write_head' = write_header_returns(TRUE)
    /\ trialNo' = trialNo + 1
    /\ pc' = "written"
    /\ UNCHANGED <<od, log>>
    /\ DictUnchanged

NextDict ==
    \/ setitem
    \/ delitem
    \/ write_trial

SpecDict == InitDict /\ [][NextDict]_vars

----------------------------------------------------------------------------
(* Several runs that append to the same data file, each with output, by     *)
(* hand (no autorun), one repetition of the trial list; the only key that   *)
(* is pressed is the trigger that ends the instructions.                    *)

MaxAppends == 3       \* runs that append to the data file

InitRuns == Init

(* Experiment.__init__ of one more run with runParams noOutput = False,     *)
(* autorun = 0                                                              *)
Experiment_again ==
    /\ pc \in {"idle", "finished", "aborted", "crashed"}
    /\ runNo < MaxAppends
    /\ runNo' = runNo + 1
    /\ pc' = "setup"
    /\ runParams' = [noOutput |-> FALSE, autorun |-> 0]
    /\ fields' = <<>>
    /\ nReps' = 1
    /\ dfile' = "none"
    /\ dbuf' = <<>>
    /\ write_head' = "unbound"
    /\ win' = "none"
    /\ winCloses' = 0
    /\ keyBuffer' = <<>>
    /\ trial' = <<>>
    /\ trialDur' = 0
    /\ trialList' = <<>>
    /\ sequence' = <<>>
    /\ trialNo' = 0
    /\ j' = 0
    /\ thisTrial' = <<>>
    /\ allKeys' = <<>>
    /\ globClock' = 0
    /\ trialClock' = 0
    /\ eventClock' = 0
    /\ log' = <<>>
    /\ storeAtStart' = store
    /\ UNCHANGED <<store, fileExists>>
    /\ UNCHANGED <<call, od>>

(* The participant presses the trigger while the instructions are shown *)
PressTrigger ==
    /\ pc = "wait_trigger"
    /\ win = "open"
    /\ keyBuffer = <<>>
    /\ keyBuffer' = <<trigger>>
    /\ UNCHANGED <<pc, runNo, store, fileExists, dfile, dbuf, write_head, win,
                   winCloses, runParams, trial, trialDur, trialList, fields,
                   sequence, trialNo, j, thisTrial, allKeys, globClock,
                   trialClock, eventClock, nReps, log, storeAtStart>>
    /\ UNCHANGED <<call, od>>

NextRuns ==
    \/ PressTrigger
    \/ Experiment_again
    \/ setup
    \/ show_instructions
    \/ wait_trigger
    \/ loop_trials
    \/ next_trial
    \/ end_loop
    \/ idle_event
    \/ idle_wait
    \/ collect
    \/ end_trial

SpecRuns == InitRuns /\ [][NextRuns]_vars

----------------------------------------------------------------------------
(* Properties *)

\* the data file as it will be once the buffer is written out
All == store \o dbuf

\* the lines this run has written so far
RunLines == SubSeq(All, Len(storeAtStart) + 1, Len(All))

\* the lines of this run that are on disk
RunLinesOnDisk == SubSeq(store, Len(storeAtStart) + 1, Len(store))

IsHeader(l) == l.kind = "header"
IsRow(l) == l.kind = "row"

Headers(lines) == SelectSeq(lines, IsHeader)
Rows(lines) == SelectSeq(lines, IsRow)

ThisHeader == extraInfo_keys \o fields

\* the 1-based position of a key in an ordered key list
IndexOf(keys, k) == CHOOSE i \in 1..Len(keys) : keys[i] = k

LogOf(kinds) == SelectSeq(log, LAMBDA e : e.e \in kinds)

(* C1: within one loop_trials run with output enabled a header line is      *)
(* written at most once, and only before the first data row of the run.     *)
C1_HeaderOnceBeforeRows ==
    ~runParams.noOutput =>
        \A i \in 1..Len(RunLines) : IsHeader(RunLines[i]) => i = 1

C1_Witness ==
    /\ ~runParams.noOutput
    /\ Len(RunLines) >= 3
    /\ IsHeader(RunLines[1])
    /\ Len(Rows(RunLines)) >= 2

(* C2: two consecutive runs on a data file that starts empty or absent, both *)
(* appending rows: with the same ordered fields the file holds exactly one  *)
(* header line, written by the first run; if the fields of the second run   *)
(* differ from the first line of the file, the second run writes its header *)
(* exactly once, before its first data row.                                 *)
C2_HeaderAcrossTwoRuns ==
    (/\ runNo = 2
     /\ ~runParams.noOutput
     /\ storeAtStart # <<>>
     /\ Len(Rows(RunLines)) >= 1)
    => IF ThisHeader = csv_reader_next(storeAtStart)
       THEN /\ Len(Headers(All)) = 1
            /\ IsHeader(All[1])
            /\ All[1].run = 1
       ELSE /\ IsHeader(RunLines[1])
            /\ RunLines[1].cells = ThisHeader
            /\ Len(Headers(RunLines)) = 1
            /\ Len(Headers(All)) = 2

C2_Witness ==
    /\ runNo = 2
    /\ ~runParams.noOutput
    /\ Len(Rows(storeAtStart)) >= 1
    /\ Len(Rows(RunLines)) >= 2
    /\ ThisHeader = csv_reader_next(storeAtStart)
    /\ pc = "finished"

(* C3 as claimed: every data row of the store has the field list of the     *)
(* store's first-line header.                                               *)
C3_RowsHaveFirstHeader ==
    \A i \in 1..Len(All) : IsRow(All[i]) => All[i].flds = csv_reader_next(All)

(* C3 as amended: the first line of the store is a header and is fixed by   *)
(* the first write; every data row has either the field list of that first *)
(* line or the field list of a header line its own run wrote before it.     *)
C3_RowsHaveFirstOrOwnHeader ==
    /\ All # <<>> => IsHeader(All[1])
    /\ storeAtStart # <<>> => (All # <<>> /\ All[1] = storeAtStart[1])
    /\ \A i \in 1..Len(All) :
          IsRow(All[i]) =>
             \/ All[i].flds = csv_reader_next(All)
             \/ \E k \in 1..(i - 1) : /\ IsHeader(All[k])
                                      /\ All[k].cells = All[i].flds
                                      /\ All[k].run = All[i].run

C3_Witness ==
    /\ runNo = 2
    /\ Len(Rows(storeAtStart)) >= 1
    /\ Len(Rows(RunLines)) >= 1
    /\ ThisHeader # csv_reader_next(storeAtStart)

(* C4: the data store is append-only: what it held when a run began is a    *)
(* prefix of what it holds at any later moment of the run, however the run  *)
(* ends.                                                                    *)
C4_AppendOnly == IsPrefix(storeAtStart, store)

C4_Witness ==
    /\ pc \in {"finished", "aborted", "crashed"}
    /\ storeAtStart # <<>>
    /\ Len(store) > Len(storeAtStart)

(* C5: when output is requested and the data file could not be opened, no   *)
(* event handler of any trial is invoked.                                   *)
C5_NoTrialWithoutStore ==
    (~runParams.noOutput /\ dfile = "none") => LogOf({"event"}) = <<>>

(* C6: an abort key press is never consumed without taking effect: a step   *)
(* that takes 'escape' out of the key buffer of a running experiment ends   *)
(* the run through quit.                                                    *)
C6_EscapeAlwaysQuits ==
    [][ (/\ "escape" \in SeqToSet(keyBuffer)
         /\ "escape" \notin SeqToSet(keyBuffer')
         /\ runNo' = runNo)
        => pc' = "aborted" ]_vars

(* C7: when the abort key takes effect during trial k of a run with output, *)
(* the data store holds one complete row for each of the trials 1..k-1, in  *)
(* order, and nothing of trial k.                                           *)
C7_AbortLeavesWholeRows ==
    (pc = "aborted" /\ ~runParams.noOutput /\ dfile = "closed") =>
        LET rows == Rows(RunLinesOnDisk)
        IN  /\ dbuf = <<>>
            /\ Len(rows) = trialNo
            /\ \A i \in 1..Len(rows) :
                  /\ rows[i].no = i
                  /\ Len(rows[i].cells) = Len(ThisHeader)
                  /\ rows[i].cells[IndexOf(ThisHeader, "cond")] = ToString(sequence[i])

C7_Witness ==
    /\ pc = "aborted"
    /\ ~runParams.noOutput
    /\ dfile = "closed"
    /\ trialNo >= 2
    /\ Len(Rows(RunLinesOnDisk)) = trialNo

(* C8 as claimed: every run that ends has closed the data file it opened    *)
(* and has released the window exactly once.                                *)
C8_TeardownReleasesAll ==
    pc \in {"finished", "aborted", "crashed"} =>
        /\ dfile # "open"
        /\ (win # "none" => winCloses = 1)

(* C8 as amended: the window is released only by quit, and then exactly     *)
(* once: a run ended by the abort key (or by a directory failure after the  *)
(* window exists) has released it once; a run that finishes normally, or    *)
(* that dies of an exception, has not released it. In all these endings the *)
(* data file, if it was opened, is closed with every row written out.       *)
C8_Teardown ==
    /\ winCloses <= 1
    /\ winCloses = 1 <=> pc = "aborted"
    /\ pc = "aborted" => win = "closed"
    /\ pc = "finished" => win = "open"
    /\ pc \in {"finished", "aborted", "crashed"} => (dfile # "open" /\ dbuf = <<>>)

C8_Witness ==
    /\ pc = "aborted"
    /\ dfile = "closed"
    /\ winCloses = 1
    /\ Len(Rows(RunLinesOnDisk)) >= 1

(* C9: setup, instructions and the trial loop run in that order, each at    *)
(* most once; no event handler is invoked and no row is written before the *)
(* trigger key was received, and the wait for the trigger is left only by   *)
(* the trigger key or by the abort key.                                     *)
C9_PhasesInOrder ==
    /\ IsPrefix(LogOf({"setup", "instructions", "trigger", "loop"}),
                <<Entry("setup", 0, 0), Entry("instructions", 0, 0),
                  Entry("trigger", 0, 0), Entry("loop", 0, 0)>>)
    /\ \A i \in 1..Len(log) :
          log[i].e \in {"loop", "event", "row", "end"} =>
             \E k \in 1..(i - 1) : log[k].e = "trigger"
    /\ (dbuf # <<>> \/ RunLines # <<>>) => LogOf({"trigger"}) # <<>>
    /\ (LogOf({"instructions"}) # <<>> /\ pc # "wait_trigger")
          => \/ LogOf({"trigger"}) # <<>>
             \/ (pc = "aborted" /\ log[Len(log)] = Entry("quit", 0, 0))

C9_Witness ==
    /\ LogOf({"trigger"}) # <<>>
    /\ LogOf({"row"}) # <<>>
    /\ runParams.autorun > 0

(* C10: a run that finishes with output enabled has appended exactly        *)
(* nReps x len(trialList) rows, row i for the i-th trial of the sequence;   *)
(* the events of a trial run in the order of the event list, and the row of *)
(* trial k is written after its last event and before the first event of    *)
(* trial k+1.                                                               *)
C10_RowsAndEventsInOrder ==
    (pc = "finished" /\ ~runParams.noOutput) =>
        LET rows == Rows(RunLinesOnDisk)
            evs == LogOf({"event", "row"})
            N == nReps * Len(trialList)
            E == Len(trial)
        IN  /\ Len(rows) = N
            /\ Len(sequence) = N
            /\ \A i \in 1..Len(rows) :
                  /\ rows[i].no = i
                  /\ rows[i].cells[IndexOf(ThisHeader, "cond")] = ToString(sequence[i])
            /\ Len(evs) = N * (E + 1)
            /\ \A k \in 1..N :
                  /\ \A e \in 1..E : evs[(k - 1) * (E + 1) + e] = Entry("event", k, e)
                  /\ evs[k * (E + 1)] = Entry("row", k, 0)

C10_Witness ==
    /\ pc = "finished"
    /\ ~runParams.noOutput
    /\ nReps = 2
    /\ Len(Rows(RunLinesOnDisk)) = 4
    /\ sequence[1] = 2

(* C11: the wait loop of an event handler, idle_event or feedback, never    *)
(* goes through an iteration once the event clock has reached the event's   *)
(* duration or the trial clock has reached the trial's total duration.      *)
C11_WaitEndsWithBudget ==
    (pc \in {"idle_wait", "feedback_wait"} /\ eventClock > 0) =>
        /\ eventClock <= trial[j].dur
        /\ trialClock <= thisTrial["dur"][2]

\* the arguments of the post_trial call and the fields it fills in
ScoredTrial == log[1].n
ScoredKeys == log[1].k
ScoredFields == {"subjResp", "accuracy", "rt"}

(* C12: post_trial scores a non-empty list of keys by its last element:     *)
(* subjResp is the value of that key in validResponses, accuracy is         *)
(* 'Correct' if subjResp equals corrResp and 'Incorrect' otherwise, rt is   *)
(* the timestamp of that element; nothing else of the record changes, so    *)
(* the earlier elements of the list have no influence.                      *)
C12_LastResponseScored ==
    (pc = "scored" /\ Len(ScoredKeys) > 0) =>
        LET last == ScoredKeys[Len(ScoredKeys)]
        IN  /\ thisTrial["subjResp"] = Num(validResponses[last[1]])
            /\ thisTrial["accuracy"] =
                 Str(IF ScoredTrial["corrResp"] = Num(validResponses[last[1]])
                     THEN "Correct" ELSE "Incorrect")
            /\ thisTrial["rt"] = Num(last[2])
            /\ DOMAIN thisTrial = DOMAIN ScoredTrial
            /\ \A k \in DOMAIN ScoredTrial \ ScoredFields : thisTrial[k] = ScoredTrial[k]

C12_Witness ==
    /\ pc = "scored"
    /\ Len(ScoredKeys) = 2
    /\ ScoredKeys[1] = <<"1", 2>>
    /\ ScoredKeys[2] = <<"0", 1>>
    /\ ScoredTrial["corrResp"] = Num(1)
    /\ thisTrial["accuracy"] = Str("Incorrect")
    /\ thisTrial["rt"] = Num(1)

C15_UnknownKeyIgnored ==
    /\ pc # "crashed"
    /\ pc = "scored" =>
         thisTrial["subjResp"] \in {Num(validResponses[k]) : k \in validKeys} \cup {Str("")}

(* C14: a run that opened its data file is never ended by an exception in   *)
(* a trial in which no response was collected: with the handlers idle_event *)
(* and feedback the trial is scored, its row written, the next trial begun. *)
C14_NoResponseGoesOn ==
    ~(pc = "crashed" /\ write_head # "unbound" /\ allKeys = <<>>)

\* the keys wait_for_response hands back in a step that returns
Returned == SubSeq(allKeys', Len(allKeys) + 1, Len(allKeys'))

\* the last of the default keys in the buffer is the abort key
EscapeIsLast ==
    LET d == SelectSeq(keyBuffer, LAMBDA k : k \in {"escape", "space"})
    IN  Len(d) > 0 /\ d[Len(d)] = "escape"

(* C16: every iteration of wait_for_response polls the default keys and     *)
(* quits on the abort key; it returns only a non-empty list: without        *)
(* fakeKey the recognized keys that have arrived, at least one; with        *)
(* fakeKey exactly [fakeKey], and only when the clock is strictly past the  *)
(* planned response time.                                                   *)
C16_WaitForResponse ==
    [][(pc = "wait_for_response" /\ Len(keyBuffer') <= Len(keyBuffer)) =>
          /\ \A i \in 1..Len(keyBuffer') : keyBuffer'[i] \notin {"escape", "space"}
          /\ (pc' = "aborted") = EscapeIsLast
          /\ pc' \in {"aborted", "collect", "wait_for_response"}
          /\ (pc' = "collect") =>
                /\ Len(Returned) > 0
                /\ IF "autoRT" \in DOMAIN thisTrial
                   THEN /\ Returned = << <<thisTrial["autoResp"][2], thisTrial["autoRT"][2]>> >>
                        /\ trialClock > thisTrial["autoRT"][2]
                   ELSE /\ \A i \in 1..Len(Returned) :
                             /\ Returned[i][1] \in DOMAIN validResponses
                             /\ Returned[i][2] = trialClock
                        /\ Len(Returned) = Len(SelectSeq(keyBuffer, LAMBDA k : k \in DOMAIN validResponses))
          /\ (pc' = "wait_for_response") =>
                /\ allKeys' = allKeys
                /\ IF "autoRT" \in DOMAIN thisTrial
                   THEN trialClock <= thisTrial["autoRT"][2]
                   ELSE \A i \in 1..Len(keyBuffer) : keyBuffer[i] \notin DOMAIN validResponses
    ]_vars

C16_Witness ==
    /\ pc = "collect"
    /\ trial[j].func = "during_trial"
    /\ "autoRT" \in DOMAIN thisTrial
    /\ thisTrial["autoRT"] = Num(1)
    /\ allKeys = << <<"1", 1>> >>
    /\ trialClock = 2

(* C17: under autorun with speed s, after setup every event's duration is   *)
(* its defined duration divided by s, and the total duration of the trial   *)
(* that the wait loops use as their budget, thisTrial['dur'], is the        *)
(* defined total divided by s, which is the sum of the scaled durations.    *)
C17_DurationsScaled ==
    (runParams.autorun > 0 /\ pc = "instructions") =>
        /\ Len(trial) = Len(create_trial)
        /\ \A i \in 1..Len(trial) :
              trial[i].dur = create_trial[i].dur \div runParams.autorun
        /\ trialDur = SumDur(create_trial) \div runParams.autorun
        /\ trialDur = SumDur(trial)
        /\ \A c \in 1..Len(trialList) :
              trialList[c]["dur"] = Num(SumDur(create_trial) \div runParams.autorun)

(* C18: every autoRT that set_autorun assigns is at least the scaled        *)
(* duration of the first event, whatever the normal sample, negative ones   *)
(* included.                                                                *)
C18_SynthRTAtLeastFirstDur ==
    pc = "instructions" =>
        \A c \in 1..Len(trialList) :
            "autoRT" \in DOMAIN trialList[c] =>
                trialList[c]["autoRT"][2] >= trial[1].dur

\* the cell of a row under the field k
Cell(l, k) == l.cells[IndexOf(l.flds, k)]

(* C19: under autorun with speed s every row of the run reports autoRT as   *)
(* the reaction time set_autorun synthesized multiplied by s once, and rt   *)
(* as the measured time multiplied by s once (the no-response marker when   *)
(* there was no response), in every repetition of a trial.                  *)
C19_TimesRescaledOnce ==
    runParams.autorun > 0 =>
        \A i \in 1..Len(RunLines) :
            IsRow(RunLines[i]) =>
                /\ \E sample \in NormalSamples :
                      Cell(RunLines[i], "autoRT") =
                        ToString(autorun_rt(trial, runParams.autorun, sample) * runParams.autorun)
                /\ Cell(RunLines[i], "rt") = ""

\* the instances constructed so far and what the log holds about them
Instances == {log[i].n : i \in {i \in 1..Len(log) : log[i].e = "init"}}
LogAbout(kind, inst) ==
    {log[i].k : i \in {i \in 1..Len(log) : log[i].e = kind /\ log[i].n = inst}}

(* C20: two instances constructed with the same seed and nReps, on the same *)
(* trial list and method, yield their trials in the same order.             *)
C20_SameSeedSameOrder ==
    \A a, b \in Instances :
        (/\ LogAbout("init", a) = LogAbout("init", b)
         /\ LogAbout("order", a) # {}
         /\ LogAbout("order", b) # {})
        => LogAbout("order", a) = LogAbout("order", b)

(* C21: two autorun setups of instances constructed with the same seed,     *)
(* nReps and speed, on the same trial list, assign the same autoResp and    *)
(* the same autoRT to every trial.                                          *)
C21_SameSeedSameAutorun ==
    \A a, b \in Instances :
        (/\ LogAbout("init", a) = LogAbout("init", b)
         /\ LogAbout("auto", a) # {}
         /\ LogAbout("auto", b) # {})
        => LogAbout("auto", a) = LogAbout("auto", b)

(* C22: autorun() runs at the speed the caller gave in runParams['autorun'] *)
(* when that speed is above 0, and at speed 100 only when none was given.   *)
C22_AutorunKeepsSpeed ==
    \A i \in 1..Len(log) :
        log[i].e = "autorun" =>
            runParams.autorun = IF log[i].n > 0 THEN log[i].n ELSE 100

(* C23: a run in autorun mode is never at a point where only a key press    *)
(* lets it go on: it does not poll for the trigger key with no key pressed. *)
C23_AutorunNeedsNoKey ==
    ~(runParams.autorun > 0 /\ pc = "wait_trigger" /\ keyBuffer = <<>>)

(* C30: idle_event never fails because of the form of the event's          *)
(* 'display', one drawable or a list or tuple of drawables.                 *)
C30_AnyDisplayForm ==
    \A i \in 1..Len(log) : log[i].e # "NameError"

\* each value of 1..n occurs exactly once in the sequence
EachOnce(row, n) ==
    /\ Len(row) = n
    /\ \A v \in 1..n : Cardinality({p \in 1..n : row[p] = v}) = 1

Column(m, c) == [r \in 1..Len(m) |-> m[r][c]]

(* C24: for every even n >= 2 latin_square(n) returns an n x n matrix in    *)
(* which every row and every column holds each value of 1..n exactly once;  *)
(* for every odd n it exits and returns no matrix.                          *)
C24_LatinSquare ==
    (pc # "call" /\ call.func = "latin_square") =>
        /\ (call.n % 2 = 0 /\ call.n >= 2) =>
              /\ pc = "returned"
              /\ Len(call.matrix) = call.n
              /\ \A r \in 1..call.n : EachOnce(call.matrix[r], call.n)
              /\ \A c \in 1..call.n : EachOnce(Column(call.matrix, c), call.n)
        /\ (call.n % 2 = 1) => (pc = "exited" /\ call.matrix = <<>>)

C24_Witness ==
    /\ pc = "returned"
    /\ call.func = "latin_square"
    /\ call.n = 4
    /\ call.matrix[1] = <<1, 4, 2, 3>>
    /\ Column(call.matrix, 1) = <<1, 2, 3, 4>>

\* the rows in which b comes right after a
RowsWithPair(m, a, b) ==
    {r \in 1..Len(m) : \E p \in 1..(Len(m[r]) - 1) : m[r][p] = a /\ m[r][p + 1] = b}

(* C25: the square of latin_square(n), n even, is balanced: for every       *)
(* ordered pair (a, b) of distinct values of 1..n exactly one row has b     *)
(* right after a.                                                           *)
C25_Balanced ==
    (pc = "returned" /\ call.func = "latin_square") =>
        \A a, b \in 1..call.n :
            a # b => Cardinality(RowsWithPair(call.matrix, a, b)) = 1

C25_Witness ==
    /\ pc = "returned"
    /\ call.func = "latin_square"
    /\ call.n = 6
    /\ RowsWithPair(call.matrix, 1, 6) = {1}
    /\ Cardinality(RowsWithPair(call.matrix, 6, 1)) = 1

(* C26: for every even n make_para(n) returns n rows of length              *)
(* 2n + n/2 + 1: the row of the Latin square followed by its mirror image,  *)
(* with the rest marker 0 before every 4th element (elements 0, 4, 8, ...)  *)
(* and once at the end; 0 occurs only at those places.                      *)
C26_ParaRows ==
    (pc = "returned" /\ call.func = "make_para") =>
        LET n == call.n
            latin == latin_square(n).matrix
        IN  /\ Len(call.matrix) = n
            /\ \A r \in 1..n :
                 LET row == call.matrix[r]
                     items == latin[r] \o [p \in 1..n |-> latin[r][n + 1 - p]]
                 IN  /\ Len(row) = 2 * n + (n \div 2) + 1
                     /\ \A q \in 0..(Len(row) - 1) :
                          IF q % 5 = 0
                          THEN row[q + 1] = 0
                          ELSE /\ row[q + 1] = items[q - (q \div 5)]
                               /\ row[q + 1] \in 1..n

C26_Witness ==
    /\ pc = "returned"
    /\ call.func = "make_para"
    /\ call.n = 2
    /\ call.matrix = << <<0, 1, 2, 2, 1, 0>>, <<0, 2, 1, 1, 2, 0>> >>

\* the sum of the first i probabilities
Cumulative(probs, i) == SumSeq(SubSeq(probs, 1, i))

(* C27: weighted_sample raises when the probabilities do not add up to one; *)
(* when they do, for every draw u in [0, 1), u = 0 included, it returns an  *)
(* index i in 0..len(probs)-1 whose cumulative interval holds u.            *)
C27_WeightedSample ==
    (pc # "call" /\ call.func = "weighted_sample") =>
        IF SumSeq(call.probs) # Resolution
        THEN pc = "raised"
        ELSE /\ pc = "returned"
             /\ call.index \in 0..(Len(call.probs) - 1)
             /\ Cumulative(call.probs, call.index) <= call.u
             /\ call.u <= Cumulative(call.probs, call.index + 1)

\* the list of (key, value) pairs after an operation, told without links:
\* a new key goes to the end, a key that is there keeps its place
AfterOp(pairs, op) ==
    LET key == op.k[1]
        Other(p) == p[1] # key
    IN  IF op.e = "delitem" THEN SelectSeq(pairs, Other)
        ELSE IF \E i \in 1..Len(pairs) : pairs[i][1] = key
        THEN [i \in 1..Len(pairs) |-> IF pairs[i][1] = key THEN op.k ELSE pairs[i]]
        ELSE Append(pairs, op.k)

RECURSIVE Replayed(_, _)
Replayed(pairs, ops) ==
    IF ops = <<>> THEN pairs
    ELSE Replayed(AfterOp(pairs, Head(ops)), Tail(ops))

ExpectedPairs == Replayed(fields, log)
ExpectedKeys == [i \in 1..Len(ExpectedPairs) |-> ExpectedPairs[i][1]]
ExpectedValues == [i \in 1..Len(ExpectedPairs) |-> ExpectedPairs[i][2]]

(* C28: after any sequence of insertions, updates and deletions the keys of *)
(* an OrderedDict come in insertion order (an updated key keeps its place,  *)
(* a deleted and re-inserted key is last), and the header written by        *)
(* loop_trials is the keys of extraInfo followed by those keys, the row its *)
(* values in the same order.                                                *)
C28_InsertionOrder ==
    (pc \in {"editing", "written"}) =>
        /\ OrderedDict_keys(od) = ExpectedKeys
        /\ OrderedDict_values(od) = ExpectedValues
        /\ pc = "written" =>
              /\ Len(store) = 2
              /\ store[1].kind = "header"
              /\ store[1].cells = extraInfo_keys \o ExpectedKeys
              /\ store[2].kind = "row"
              /\ store[2].cells =
                    [i \in 1..(Len(extraInfo_values) + Len(ExpectedValues)) |->
                        csv_cell((extraInfo_values \o ExpectedValues)[i])]

C28_Witness ==
    /\ pc = "written"
    /\ fields = << <<"cond", Num(0)>>, <<"rt", Num(0)>> >>
    /\ log = << Entry("setitem", 0, <<"rt", Num(1)>>),
                Entry("delitem", 0, <<"cond", Num(0)>>),
                Entry("setitem", 0, <<"cond", Num(1)>>) >>
    /\ store[1].cells = <<"subjID", "rt", "cond">>
    /\ store[2].cells = <<"subj", "1", "1">>

\* the place of the nearest header line above line i of the file, 0 if none
HeaderAbove(lines, i) ==
    LET hs == {h \in 1..(i - 1) : IsHeader(lines[h])}
    IN  IF hs = {} THEN 0 ELSE CHOOSE h \in hs : \A g \in hs : g <= h

(* C29: after any sequence of runs that append to the same data file with   *)
(* possibly different field lists (A, then B, then A again), the nearest    *)
(* header line above every data row is the field list the row was written   *)
(* with.                                                                    *)
C29_NearestHeaderGoverns ==
    \A i \in 1..Len(store) :
        IsRow(store[i]) =>
            /\ HeaderAbove(store, i) # 0
            /\ store[HeaderAbove(store, i)].cells = store[i].flds

====
